---- MODULE Spec2Model ----
(***************************************************************************)
(* Model of src/app.py, the "Content Integrity Scanner": one Streamlit     *)
(* script run (main) takes a pasted text or an uploaded PDF/DOCX file,     *)
(* extracts the text, gates it on its length and shows two scores.         *)
(*                                                                         *)
(* Texts are TLA+ strings, so lengths, slices and substring tests are the  *)
(* ones Python computes on the same (ASCII) strings.  The float scores of  *)
(* check_ai_probability are kept in tenths of a percent (85.5 -> 855).     *)
(***************************************************************************)
EXTENDS Integers, Sequences, FiniteSets, TLC

VARIABLES
    pc,             \* position of the script run inside main()
    option,         \* st.sidebar.selectbox value
    uploaded_file,  \* value of st.file_uploader (NoFile models None)
    pasted,         \* content of the st.text_area widget
    user_text,      \* main's local user_text
    success_shown,  \* st.success("File ... processed successfully!") was shown
    ai_called,      \* check_ai_probability was invoked in this run
    plag_called,    \* check_plagiarism was invoked in this run
    ai_score,       \* tenths of a percent
    ai_label,
    plag_score,     \* percent
    sources,
    flagged,        \* st.warning("Flagged: ...") was shown (ai_score > 50)
    shown_text,     \* text written in the "View Extracted Text" expander
    outcome,        \* how the run ended
    raised_in,      \* function in which an exception was raised ("none" if none)
    remembered      \* observer: input and outcome of one earlier analysis

vars == <<pc, option, uploaded_file, pasted, user_text, success_shown,
          ai_called, plag_called, ai_score, ai_label, plag_score, sources,
          flagged, shown_text, outcome, raised_in, remembered>>

----------------------------------------------------------------------------
(* Bounds of the model *)

\* largest number of pages / paragraphs of an uploaded document
MaxParts == 2

----------------------------------------------------------------------------
(* Program constants *)

MinLength == 50          \* len(user_text) > 50
TruncateAt == 1500       \* text[:1500]
HighScore == 855         \* 85.5
LowScore == 120          \* 12.0
ErrorScore == 0          \* 0.0
FlagAbove == 500         \* ai_score > 50
RandLow == 0             \* random.randint(0, 20)
RandHigh == 20
SourceThreshold == 10    \* score > 10

HighLabel == "High AI Probability"
LowLabel == "Low AI Probability"
ErrorLabel == "Error"
NoLabel == ""

Phrase1 == "As an AI language model"
Phrase2 == "In conclusion,"

ReferenceSources == <<"Wikipedia - General Knowledge", "Academic Source A">>

UploadTypes == {"pdf", "docx"}
InputMethods == {"Upload File", "Paste Text"}

----------------------------------------------------------------------------
(* String helpers: Python's str operations *)

RECURSIVE Rep(_, _)
\* s * n
Rep(s, n) ==
    IF n = 0 THEN ""
    ELSE LET h == Rep(s, n \div 2)
         IN  IF n % 2 = 0 THEN h \o h ELSE h \o h \o s

Pad(n) == Rep("x", n)

\* phrase in text
Contains(text, phrase) ==
    \E i \in 1..(Len(text) - Len(phrase) + 1) :
        SubSeq(text, i, i + Len(phrase) - 1) = phrase

\* text[:n]
Prefix(text, n) ==
    IF Len(text) <= n THEN text ELSE SubSeq(text, 1, n)

\* name.endswith(suffix)
EndsWith(name, suffix) ==
    /\ Len(name) >= Len(suffix)
    /\ SubSeq(name, Len(name) - Len(suffix) + 1, Len(name)) = suffix

UpperLetters == "ABCDEFGHIJKLMNOPQRSTUVWXYZ"
LowerLetters == "abcdefghijklmnopqrstuvwxyz"

LowerChar(c) ==
    IF \E i \in 1..Len(UpperLetters) : SubSeq(UpperLetters, i, i) = c
    THEN LET i == CHOOSE j \in 1..Len(UpperLetters) : SubSeq(UpperLetters, j, j) = c
         IN  SubSeq(LowerLetters, i, i)
    ELSE c

RECURSIVE Lower(_)
\* name.lower()
Lower(name) ==
    IF name = "" THEN ""
    ELSE LowerChar(SubSeq(name, 1, 1)) \o Lower(SubSeq(name, 2, Len(name)))

----------------------------------------------------------------------------
(* Inputs *)

\* the texts a page or a paragraph may hold
PartTexts == {Phrase2, Pad(36)}

RECURSIVE SeqsUpTo(_, _)
SeqsUpTo(S, n) ==
    IF n = 0 THEN {<<>>}
    ELSE LET shorter == SeqsUpTo(S, n - 1)
         IN  shorter \cup {Append(q, x) : q \in shorter, x \in S}

PartSeqs == SeqsUpTo(PartTexts, MaxParts)

FileNames == {"essay.pdf", "essay.docx", "ESSAY.PDF", "notes.txt"}

\* kind is the container the bytes really are; "garbage" is no container at all
Files ==
    {[name |-> n, kind |-> k, parts |-> p] :
        n \in FileNames, k \in {"pdf", "docx"}, p \in PartSeqs}
    \cup {[name |-> n, kind |-> "garbage", parts |-> <<>>] : n \in FileNames}

NoFile == [name |-> "", kind |-> "none", parts |-> <<>>]

PasteTexts ==
    { "",
      Phrase2,
      Pad(49), Pad(50), Pad(51),
      Phrase2 \o Pad(36),
      Phrase2 \o Pad(37),
      "As an AI language model, I cannot provide opinions. In conclusion, this demonstrates the pattern.",
      "in conclusion, " \o Pad(60),
      Phrase1 \o Pad(40),
      Pad(1500),
      Pad(1500) \o Phrase2,
      Pad(1490) \o Phrase2 \o Pad(3) }

\* the inputs of the runs that are compared with an earlier run
PairFiles ==
    {[name |-> n, kind |-> "pdf", parts |-> <<Pad(36), Pad(36)>>] :
        n \in {"essay.pdf", "ESSAY.PDF", "notes.txt"}}
    \cup {[name |-> "essay.pdf", kind |-> "garbage", parts |-> <<>>],
          [name |-> "essay.docx", kind |-> "docx", parts |-> <<Pad(36), Pad(36)>>]}

PairTexts == {Pad(50), Pad(51), Pad(1500), Pad(1500) \o Phrase2}

----------------------------------------------------------------------------
(* The functions of app.py *)

\* st.file_uploader(..., type=['pdf', 'docx']): the widget only hands over a
\* file whose extension, compared case-insensitively, is in the type list
Accepts(name) ==
    \E t \in UploadTypes : EndsWith(Lower(name), "." \o t)

\* PyPDF2.PdfReader(file) raises on bytes that are not a PDF
PdfReadable(file) == file.kind = "pdf"

\* docx.Document(file) raises on bytes that are not a DOCX package
DocxReadable(file) == file.kind = "docx"

RECURSIVE extract_text_from_pdf(_)
\* text = ""; for page in pages: text += page.extract_text()
extract_text_from_pdf(pages) ==
    IF pages = <<>> THEN ""
    ELSE extract_text_from_pdf(SubSeq(pages, 1, Len(pages) - 1))
            \o pages[Len(pages)]

RECURSIVE extract_text_from_docx_joined(_)
extract_text_from_docx_joined(paras) ==
    IF paras = <<>> THEN ""
    ELSE IF Len(paras) = 1 THEN paras[1]
    ELSE extract_text_from_docx_joined(SubSeq(paras, 1, Len(paras) - 1))
            \o "\n" \o paras[Len(paras)]

RECURSIVE extract_text_from_docx(_)
\* text = ""; for para in paragraphs: text += para.text + "\n"
extract_text_from_docx(paras) ==
    IF paras = <<>> THEN ""
    ELSE extract_text_from_docx(SubSeq(paras, 1, Len(paras) - 1))
            \o paras[Len(paras)] \o "\n"

check_ai_probability_truncated(text) ==
    LET truncated_text == Prefix(text, TruncateAt)
    IN  IF Contains(truncated_text, Phrase1) \/ Contains(truncated_text, Phrase2)
        THEN <<HighScore, HighLabel>>
        ELSE <<LowScore, LowLabel>>

\* the try body of check_ai_probability: truncated_text is computed and
\* never read, the phrases are looked up in the whole text
check_ai_probability(text) ==
    LET truncated_text == Prefix(text, TruncateAt)
    IN  IF Contains(text, Phrase1) \/ Contains(text, Phrase2)
        THEN <<HighScore, HighLabel>>
        ELSE <<LowScore, LowLabel>>

\* except Exception: return 0.0, "Error"
check_ai_probability_except == <<ErrorScore, ErrorLabel>>

plagiarism_sources_ge(score) ==
    IF score >= SourceThreshold THEN ReferenceSources ELSE <<>>

\* sources = [...] if score > 10 else []
plagiarism_sources(score) ==
    IF score > SourceThreshold THEN ReferenceSources ELSE <<>>

\* the values random.randint(0, 20) can return
RandomScores == RandLow..RandHigh

LengthGateTruthy(text) == text # ""

LengthGateOffByOne(text) == text # "" /\ Len(text) > MinLength + 1

\* user_text and len(user_text) > 50
LengthGate(text) == text # "" /\ Len(text) > MinLength

\* user_text of the previous run kept instead of being reset
StaleUserText == user_text

\* user_text = ""
FreshUserText == ""

----------------------------------------------------------------------------
(* State *)

NoRecord ==
    [valid |-> FALSE, option |-> "", file |-> NoFile, pasted |-> "",
     outcome |-> "", text |-> "", ai_score |-> 0, ai_label |-> NoLabel,
     plag_score |-> 0, sources |-> <<>>]

\* what the run under way was given and what it showed
CurrentRecord ==
    [valid |-> TRUE, option |-> option, file |-> uploaded_file,
     pasted |-> pasted, outcome |-> outcome, text |-> user_text,
     ai_score |-> ai_score, ai_label |-> ai_label,
     plag_score |-> plag_score, sources |-> sources]

Init ==
    /\ pc = "idle"
    /\ option = "Upload File"
    /\ uploaded_file = NoFile
    /\ pasted = ""
    /\ user_text = ""
    /\ success_shown = FALSE
    /\ ai_called = FALSE
    /\ plag_called = FALSE
    /\ ai_score = 0
    /\ ai_label = NoLabel
    /\ plag_score = 0
    /\ sources = <<>>
    /\ flagged = FALSE
    /\ shown_text = ""
    /\ outcome = "pending"
    /\ raised_in = "none"
    /\ remembered = NoRecord

\* a script run starts with nothing of the previous run on the page
ClearRun ==
    /\ user_text' = FreshUserText
    /\ success_shown' = FALSE
    /\ ai_called' = FALSE
    /\ plag_called' = FALSE
    /\ ai_score' = 0
    /\ ai_label' = NoLabel
    /\ plag_score' = 0
    /\ sources' = <<>>
    /\ flagged' = FALSE
    /\ shown_text' = ""
    /\ outcome' = "pending"
    /\ raised_in' = "none"

----------------------------------------------------------------------------
(* main(), lines 56-78: the input method and the text *)

\* "Upload File" selected; the widget returns the file or None
StartUpload(file) ==
    /\ pc = "idle"
    /\ option' = "Upload File"
    /\ uploaded_file' = IF Accepts(file.name) THEN file ELSE NoFile
    /\ pasted' = ""
    /\ ClearRun
    /\ pc' = "upload"
    /\ UNCHANGED remembered

\* "Paste Text" selected
StartPaste(text) ==
    /\ pc = "idle"
    /\ option' = "Paste Text"
    /\ uploaded_file' = NoFile
    /\ pasted' = text
    /\ ClearRun
    /\ pc' = "paste"
    /\ UNCHANGED remembered

\* uploaded_file is None
UploadNothing ==
    /\ pc = "upload"
    /\ uploaded_file = NoFile
    /\ pc' = "button"
    /\ UNCHANGED <<option, uploaded_file, pasted, user_text, success_shown,
                   ai_called, plag_called, ai_score, ai_label, plag_score,
                   sources, flagged, shown_text, outcome, raised_in, remembered>>

\* lines 70-74; an exception of the reader leaves main
UploadExtract ==
    /\ pc = "upload"
    /\ uploaded_file # NoFile
    /\ LET isPdf == EndsWith(uploaded_file.name, ".pdf")
           isDocx == ~isPdf /\ EndsWith(uploaded_file.name, ".docx")
           raises == \/ isPdf /\ ~PdfReadable(uploaded_file)
                     \/ isDocx /\ ~DocxReadable(uploaded_file)
       IN  IF raises
           THEN /\ raised_in' = IF isPdf THEN "extract_text_from_pdf"
                                ELSE "extract_text_from_docx"
                /\ outcome' = "exception"
                /\ pc' = "done"
                /\ UNCHANGED <<user_text, success_shown>>
           ELSE /\ user_text' =
                     IF isPdf THEN extract_text_from_pdf(uploaded_file.parts)
                     ELSE IF isDocx THEN extract_text_from_docx(uploaded_file.parts)
                     ELSE user_text
                /\ success_shown' = TRUE
                /\ pc' = "button"
                /\ UNCHANGED <<outcome, raised_in>>
    /\ UNCHANGED <<option, uploaded_file, pasted, ai_called, plag_called,
                   ai_score, ai_label, plag_score, sources, flagged,
                   shown_text, remembered>>

\* user_text = st.text_area(...)
PasteText ==
    /\ pc = "paste"
    /\ user_text' = pasted
    /\ pc' = "button"
    /\ UNCHANGED <<option, uploaded_file, pasted, success_shown,
                   ai_called, plag_called, ai_score, ai_label, plag_score,
                   sources, flagged, shown_text, outcome, raised_in, remembered>>

----------------------------------------------------------------------------
(* main(), lines 80-115: the Analyze button *)

\* st.button(...) is False: the run ends without an analysis
ButtonNotPressed ==
    /\ pc = "button"
    /\ outcome' = "not_analyzed"
    /\ pc' = "done"
    /\ UNCHANGED <<option, uploaded_file, pasted, user_text, success_shown,
                   ai_called, plag_called, ai_score, ai_label, plag_score,
                   sources, flagged, shown_text, raised_in, remembered>>

\* line 81 true
GatePass ==
    /\ pc = "button"
    /\ LengthGate(user_text)
    /\ pc' = "ai"
    /\ UNCHANGED <<option, uploaded_file, pasted, user_text, success_shown,
                   ai_called, plag_called, ai_score, ai_label, plag_score,
                   sources, flagged, shown_text, outcome, raised_in, remembered>>

\* line 81 false: st.error("Please provide text longer than 50 characters.")
GateReject ==
    /\ pc = "button"
    /\ ~LengthGate(user_text)
    /\ outcome' = "too_short"
    /\ pc' = "done"
    /\ UNCHANGED <<option, uploaded_file, pasted, user_text, success_shown,
                   ai_called, plag_called, ai_score, ai_label, plag_score,
                   sources, flagged, shown_text, raised_in, remembered>>

\* line 86
CheckAI ==
    /\ pc = "ai"
    /\ ai_called' = TRUE
    /\ ai_score' = check_ai_probability(user_text)[1]
    /\ ai_label' = check_ai_probability(user_text)[2]
    /\ pc' = "plag"
    /\ UNCHANGED <<option, uploaded_file, pasted, user_text, success_shown,
                   plag_called, plag_score, sources, flagged, shown_text,
                   outcome, raised_in, remembered>>

\* line 89
CheckPlagiarism(score) ==
    /\ pc = "plag"
    /\ plag_called' = TRUE
    /\ plag_score' = score
    /\ sources' = plagiarism_sources(score)
    /\ pc' = "display"
    /\ UNCHANGED <<option, uploaded_file, pasted, user_text, success_shown,
                   ai_called, ai_score, ai_label, flagged, shown_text,
                   outcome, raised_in, remembered>>

\* lines 92-112
Display ==
    /\ pc = "display"
    /\ flagged' = (ai_score > FlagAbove)
    /\ shown_text' = user_text
    /\ outcome' = "report"
    /\ pc' = "done"
    /\ UNCHANGED <<option, uploaded_file, pasted, user_text, success_shown,
                   ai_called, plag_called, ai_score, ai_label, plag_score,
                   sources, raised_in, remembered>>

\* the next interaction reruns the script from its first line
Rerun ==
    /\ pc = "done"
    /\ pc' = "idle"
    /\ UNCHANGED <<option, uploaded_file, pasted, user_text, success_shown,
                   ai_called, plag_called, ai_score, ai_label, plag_score,
                   sources, flagged, shown_text, outcome, raised_in, remembered>>

\* the observer keeps what the finished analysis was given and what it showed
Remember ==
    /\ pc = "done"
    /\ outcome # "not_analyzed"
    /\ remembered # CurrentRecord
    /\ remembered' = CurrentRecord
    /\ UNCHANGED <<pc, option, uploaded_file, pasted, user_text, success_shown,
                   ai_called, plag_called, ai_score, ai_label, plag_score,
                   sources, flagged, shown_text, outcome, raised_in>>

----------------------------------------------------------------------------
(* Internal failures of the scorers *)

\* an Exception inside the try of check_ai_probability: caught at line 43
CheckAIFails ==
    /\ pc = "ai"
    /\ ai_called' = TRUE
    /\ ai_score' = check_ai_probability_except[1]
    /\ ai_label' = check_ai_probability_except[2]
    /\ raised_in' = "check_ai_probability"
    /\ pc' = "plag"
    /\ UNCHANGED <<option, uploaded_file, pasted, user_text, success_shown,
                   plag_called, plag_score, sources, flagged, shown_text,
                   outcome, remembered>>

\* an Exception inside check_plagiarism: no handler there nor in main
CheckPlagiarismFails ==
    /\ pc = "plag"
    /\ plag_called' = TRUE
    /\ raised_in' = "check_plagiarism"
    /\ outcome' = "exception"
    /\ pc' = "done"
    /\ UNCHANGED <<option, uploaded_file, pasted, user_text, success_shown,
                   ai_called, ai_score, ai_label, plag_score, sources,
                   flagged, shown_text, remembered>>

----------------------------------------------------------------------------
(* Specifications *)

Next ==
    \/ \E file \in Files : StartUpload(file)
    \/ \E text \in PasteTexts : StartPaste(text)
    \/ UploadNothing
    \/ UploadExtract
    \/ PasteText
    \/ ButtonNotPressed
    \/ GatePass
    \/ GateReject
    \/ CheckAI
    \/ \E score \in RandomScores : CheckPlagiarism(score)
    \/ Display
    \/ Rerun

\* the script as written
Spec == Init /\ [][Next]_vars

NextFault ==
    \/ Next
    \/ CheckAIFails
    \/ CheckPlagiarismFails

\* the script when the body of a scorer may raise
SpecFault == Init /\ [][NextFault]_vars

NextPair ==
    \/ \E file \in PairFiles : StartUpload(file)
    \/ \E text \in PairTexts : StartPaste(text)
    \/ UploadNothing
    \/ UploadExtract
    \/ PasteText
    \/ ButtonNotPressed
    \/ GatePass
    \/ GateReject
    \/ CheckAI
    \/ \E score \in RandomScores : CheckPlagiarism(score)
    \/ Display
    \/ Rerun
    \/ Remember

\* the script observed over several runs, one earlier analysis being kept
SpecPair == Init /\ [][NextPair]_vars

----------------------------------------------------------------------------
(* Properties *)

\* the run went through the Analyze button (line 80 true)
Analyzed == pc = "done" /\ outcome \notin {"not_analyzed", "exception"}

\* C1: a text shorter than 50 characters, the empty text included, never
\* reaches a scorer and never yields a report; the analysis of it ends with
\* the too-short error.
C1_ShortTextRejected ==
    Len(user_text) < MinLength =>
        /\ ~ai_called
        /\ ~plag_called
        /\ pc \notin {"ai", "plag", "display"}
        /\ outcome # "report"
        /\ shown_text = ""
        /\ Analyzed => outcome = "too_short"

C1_Witness ==
    /\ pc = "done"
    /\ outcome = "too_short"
    /\ user_text = Phrase2
    /\ ~ai_called /\ ~plag_called

\* C2: a document whose name ends neither in ".pdf" nor in ".docx" fails with
\* an error other than the too-short error, yields no report and is never
\* reported as processed successfully.
C2_UnsupportedFormatRejected ==
    (/\ uploaded_file # NoFile
     /\ ~EndsWith(uploaded_file.name, ".pdf")
     /\ ~EndsWith(uploaded_file.name, ".docx")) =>
        /\ ~success_shown
        /\ Analyzed => outcome \notin {"too_short", "report"}

\* C3: a pdf or docx document with malformed bytes ends the run with a
\* handled error, not with an exception leaving main; no scorer runs and no
\* report is produced.
C3_ExtractionFailureHandled ==
    (/\ pc = "done"
     /\ uploaded_file # NoFile
     /\ \/ EndsWith(uploaded_file.name, ".pdf") /\ ~PdfReadable(uploaded_file)
        \/ EndsWith(uploaded_file.name, ".docx") /\ ~DocxReadable(uploaded_file)) =>
        /\ outcome \notin {"exception", "report"}
        /\ ~ai_called
        /\ ~plag_called

\* C4: when a scorer raises, the run still ends with a report in which that
\* scorer has the value 0 and the error label, the other scorer's result
\* being the one it gives without the failure.
C4_ScorerFailureIsolated ==
    (pc = "done" /\ raised_in \in {"check_ai_probability", "check_plagiarism"}) =>
        /\ outcome = "report"
        /\ raised_in = "check_ai_probability" =>
              /\ ai_score = ErrorScore /\ ai_label = ErrorLabel
              /\ plag_score \in RandomScores
              /\ sources = plagiarism_sources(plag_score)
        /\ raised_in = "check_plagiarism" =>
              /\ plag_score = 0
              /\ ai_label # ErrorLabel =>
                    <<ai_score, ai_label>> = check_ai_probability(user_text)

\* phrase occurs in text, compared character by character
OccursIn(phrase, text) ==
    \E i \in 0..(Len(text) - Len(phrase)) :
        \A k \in 1..Len(phrase) :
            SubSeq(text, i + k, i + k) = SubSeq(phrase, k, k)

\* C5: the AI-origin scorer returns the high label and a value of at least
\* 50 (500 tenths) for a text with one of the two telltale phrases, and the
\* low label and a value below 50 for a text with none.
C5_PhraseDecidesLabel ==
    ai_called =>
        IF OccursIn(Phrase1, user_text) \/ OccursIn(Phrase2, user_text)
        THEN ai_label = HighLabel /\ ai_score >= 500
        ELSE ai_label = LowLabel /\ ai_score < 500

C5_Witness ==
    /\ ai_called
    /\ Len(user_text) > TruncateAt
    /\ ~OccursIn(Phrase2, Prefix(user_text, TruncateAt))
    /\ OccursIn(Phrase2, user_text)
    /\ ai_label = HighLabel

\* C6: whatever value is drawn, the originality score lies in 0..20 (hence in
\* 0..100), and the source list is non-empty exactly when the score exceeds
\* 10, in which case it is the fixed reference list.
C6_ScoreAndSources ==
    plag_called =>
        /\ plag_score \in 0..20
        /\ plag_score \in 0..100
        /\ (sources # <<>>) <=> (plag_score > 10)
        /\ sources # <<>> =>
              sources = <<"Wikipedia - General Knowledge", "Academic Source A">>

C6_Witness ==
    /\ plag_called
    /\ plag_score = 10
    /\ sources = <<>>
    /\ outcome = "report"

RECURSIVE LenOfFirst(_, _)
\* total length of the first k texts of parts
LenOfFirst(parts, k) ==
    IF k = 0 THEN 0 ELSE LenOfFirst(parts, k - 1) + Len(parts[k])

\* C8: the text extracted from a PDF is its page texts in page order with
\* nothing in between; the text extracted from a DOCX is its paragraph texts
\* in document order, each followed by exactly one newline (the empty text
\* for a document without paragraphs).
C8_ExtractionConcatenates ==
    (success_shown /\ uploaded_file # NoFile) =>
        LET p == uploaded_file.parts
            n == Len(p)
        IN  IF EndsWith(uploaded_file.name, ".pdf")
            THEN /\ Len(user_text) = LenOfFirst(p, n)
                 /\ \A i \in 1..n :
                        SubSeq(user_text, LenOfFirst(p, i - 1) + 1,
                               LenOfFirst(p, i)) = p[i]
            ELSE IF EndsWith(uploaded_file.name, ".docx")
            THEN /\ Len(user_text) = LenOfFirst(p, n) + n
                 /\ n = 0 => user_text = ""
                 /\ \A i \in 1..n :
                        /\ SubSeq(user_text, LenOfFirst(p, i - 1) + i,
                                  LenOfFirst(p, i) + i - 1) = p[i]
                        /\ SubSeq(user_text, LenOfFirst(p, i) + i,
                                  LenOfFirst(p, i) + i) = "\n"
            ELSE TRUE

C8_Witness ==
    /\ success_shown
    /\ EndsWith(uploaded_file.name, ".docx")
    /\ uploaded_file.parts = <<Pad(36), Phrase2>>
    /\ Len(user_text) = 52
    /\ pc = "button"

\* the finished analysis was given what the remembered one was given
SameInput ==
    /\ remembered.valid
    /\ Analyzed \/ (pc = "done" /\ outcome = "exception")
    /\ remembered.option = option
    /\ remembered.file = uploaded_file
    /\ remembered.pasted = pasted

\* C7 as stated: two analyses of identical input show identical reports,
\* originality score and source list included.
C7_IdenticalReports ==
    SameInput => remembered = CurrentRecord

\* C7 amended: two analyses of identical input end the same way on the same
\* extracted text with the same AI score and label.
C7_SameTextAndAIResult ==
    SameInput =>
        /\ remembered.outcome = outcome
        /\ remembered.text = user_text
        /\ remembered.ai_score = ai_score
        /\ remembered.ai_label = ai_label

C7_Witness ==
    /\ SameInput
    /\ outcome = "report"
    /\ remembered.outcome = "report"
    /\ remembered.plag_score # plag_score
    /\ remembered.sources # sources

\* C9: two texts that agree on their first 1500 characters get the same AI
\* score and label.
C9_PrefixDecides ==
    (/\ remembered.valid
     /\ remembered.outcome = "report"
     /\ pc = "done"
     /\ outcome = "report"
     /\ Prefix(remembered.text, 1500) = Prefix(user_text, 1500)) =>
        /\ remembered.ai_score = ai_score
        /\ remembered.ai_label = ai_label

\* C10 as stated: every analysed text of length 50 or more passes the check,
\* reaches both scorers and yields a report.
C10_FiftyPasses ==
    (Analyzed /\ Len(user_text) >= 50) =>
        /\ outcome = "report"
        /\ ai_called
        /\ plag_called

\* C10 amended: every analysed text of length 51 or more passes the check,
\* reaches both scorers and yields a report showing it; a text of length
\* exactly 50 is rejected with the too-short error.
C10_FiftyOnePasses ==
    /\ (Analyzed /\ Len(user_text) >= 51) =>
          /\ outcome = "report"
          /\ ai_called
          /\ plag_called
          /\ shown_text = user_text
    /\ (Analyzed /\ Len(user_text) = 50) =>
          /\ outcome = "too_short"
          /\ ~ai_called
          /\ ~plag_called

C10_Witness ==
    /\ pc = "done"
    /\ Len(user_text) = 51
    /\ outcome = "report"
    /\ ai_called /\ plag_called

====
